---- MODULE Spec2Model ----
(***************************************************************************)
(* compare_models.py: two model documents are loaded, their nodes indexed  *)
(* by nodeid, the two indexes compared, and a text report written.         *)
(*                                                                         *)
(* Values are the values json.load produces.  A value is a record          *)
(* [t |-> tag, v |-> payload]:                                             *)
(*   null  : v = 0                  bool : v \in BOOLEAN                   *)
(*   int   : v an integer           str  : v the sequence of code points   *)
(*   list  : v a sequence of values dict : v a function from field names   *)
(* A Python str is the sequence of its code points, so that sorted() and   *)
(* str() are computed and not assumed.                                     *)
(***************************************************************************)
EXTENDS Integers, Sequences, FiniteSets, TLC

(* pc: the next step of main.  data, nodes_by_id: the locals of the call   *)
(* of load_nodes_by_id in progress.  nodes_a, nodes_b, results: the locals *)
(* of main.  opened: the input files opened so far.  output_file: the file *)
(* the report goes to.  stdout, stderr: the lines printed.  exit_code: the *)
(* status main returned, -1 before it returns.                             *)
VARIABLES pc, data, nodes_by_id, nodes_a, nodes_b, results, opened, output_file, stdout, stderr, exit_code

vars == <<pc, data, nodes_by_id, nodes_a, nodes_b, results, opened, output_file, stdout, stderr, exit_code>>

(* ------------------------------ values ------------------------------ *)

Null == [t |-> "null", v |-> 0]

JBool(b) == [t |-> "bool", v |-> b]

JInt(n) == [t |-> "int", v |-> n]

JStr(s) == [t |-> "str", v |-> s]

JList(l) == [t |-> "list", v |-> l]

JDict(f) == [t |-> "dict", v |-> f]

EmptyDict == [k \in {} |-> Null]

(* isinstance(x, dict), isinstance(x, list) *)
IsDict(x) == x.t = "dict"

IsList(x) == x.t = "list"

(* d.get(k, default) on a dict value *)
Get(d, k, default) == IF k \in DOMAIN d.v THEN d.v[k] ELSE default

(* bool(x): the truth value Python's `if x:` and `not x` test *)
Truthy(x) ==
    CASE x.t = "null" -> FALSE
      [] x.t = "bool" -> x.v
      [] x.t = "int"  -> x.v # 0
      [] x.t = "str"  -> Len(x.v) > 0
      [] x.t = "list" -> Len(x.v) > 0
      [] x.t = "dict" -> DOMAIN x.v # {}

(* the decimal digits of a natural number, as code points *)
RECURSIVE Digits(_)
Digits(n) == IF n < 10 THEN <<48 + n>> ELSE Digits(n \div 10) \o <<48 + (n % 10)>>

(* str(x) for the scalars, and for the empty list and dict *)
PyStr(x) ==
    CASE x.t = "null" -> <<78, 111, 110, 101>>
      [] x.t = "bool" -> IF x.v THEN <<84, 114, 117, 101>> ELSE <<70, 97, 108, 115, 101>>
      [] x.t = "int"  -> IF x.v < 0 THEN <<45>> \o Digits(0 - x.v) ELSE Digits(x.v)
      [] x.t = "str"  -> x.v
      [] x.t = "list" -> <<91, 93>>
      [] x.t = "dict" -> <<123, 125>>

(* x == y on scalars: bool is a subclass of int, True == 1 and False == 0 *)
IsNum(x) == x.t \in {"int", "bool"}

Num(x) == IF x.t = "bool" THEN (IF x.v THEN 1 ELSE 0) ELSE x.v

PyEq(x, y) ==
    IF IsNum(x) /\ IsNum(y) THEN Num(x) = Num(y)
    ELSE IF x.t # y.t THEN FALSE
    ELSE x = y

(* node_a == node_b on two node dicts whose values are scalars *)
NodeEq(x, y) ==
    /\ DOMAIN x.v = DOMAIN y.v
    /\ \A k \in DOMAIN x.v : PyEq(x.v[k], y.v[k])

(* s < t on two strs: by code point, a proper prefix first *)
RECURSIVE StrLess(_, _)
StrLess(s, t) ==
    IF Len(t) = 0 THEN FALSE
    ELSE IF Len(s) = 0 THEN TRUE
    ELSE IF s[1] # t[1] THEN s[1] < t[1]
    ELSE StrLess(Tail(s), Tail(t))

(* sorted(S) for a set of strs *)
RECURSIVE Sorted(_)
Sorted(S) ==
    IF S = {} THEN <<>>
    ELSE LET m == CHOOSE x \in S : \A y \in S \ {x} : StrLess(x, y)
         IN  <<m>> \o Sorted(S \ {m})

(* ------------------------- load_nodes_by_id ------------------------- *)

(* An index is a function from nodeid strs to node dicts. *)
EmptyIndex == [k \in {} |-> Null]

(* nodes_by_id[k] = node *)
Put(idx, k, node) == [x \in (DOMAIN idx) \cup {k} |-> IF x = k THEN node ELSE idx[x]]

(* `if nodeid:` of line 56: whether a node dict is indexed *)
HasNodeid(node) == Truthy(Get(node, "nodeid", Null))

(* lines 52-58: one entry of a nodes list *)
IndexNode(idx, node) ==
    IF ~IsDict(node) THEN idx
    ELSE IF HasNodeid(node) THEN Put(idx, PyStr(Get(node, "nodeid", Null)), node)
    ELSE idx

(* lines 51-58: the loop over one nodes list *)
RECURSIVE NodesLoop(_, _)
NodesLoop(nodes, idx) ==
    IF Len(nodes) = 0 THEN idx
    ELSE NodesLoop(Tail(nodes), IndexNode(idx, Head(nodes)))

(* lines 44-58: one entry of the graph list *)
IndexGraph(idx, graph) ==
    IF ~IsDict(graph) THEN idx
    ELSE LET nodes == Get(graph, "nodes", JList(<<>>))
         IN  IF ~IsList(nodes) THEN idx ELSE NodesLoop(nodes.v, idx)

(* lines 43-58: the loop over the graphs *)
RECURSIVE GraphsLoop(_, _)
GraphsLoop(graphs, idx) ==
    IF Len(graphs) = 0 THEN idx
    ELSE GraphsLoop(Tail(graphs), IndexGraph(idx, Head(graphs)))

(* lines 39-41: the graphs of a document that is a dict *)
GraphsOf(doc) ==
    LET graphs == Get(doc, "graph", JList(<<>>))
    IN  IF ~IsList(graphs) THEN <<graphs>> ELSE graphs.v

(* line 39: data.get raises AttributeError unless data is a dict *)
LoadRaises(doc) == ~IsDict(doc)

(* lines 37-60, for a document on which line 39 does not raise *)
load_nodes_by_id(doc) == GraphsLoop(GraphsOf(doc), EmptyIndex)

(* lines 63-70: the identity fields of a node dict as strs; defined by the  *)
(* program and called nowhere in it                                        *)
cast_node(x) ==
    JDict([k \in DOMAIN x.v |->
             IF k \in {"nodeid", "nodegroup_id", "alias"} /\ x.v[k].t # "null"
             THEN JStr(PyStr(x.v[k])) ELSE x.v[k]])

(* --------------------------- compare_nodes --------------------------- *)

(* the str literals of lines 92-93 *)
Unknown == <<85, 110, 107, 110, 111, 119, 110>>

NodeGroupLabel == <<78, 79, 68, 69, 95, 71, 82, 79, 85, 80, 95, 73, 68, 58, 32>>

(* file_a_nodes.get(nodeid): None when the index lacks the key *)
GetNode(idx, nodeid) == IF nodeid \in DOMAIN idx THEN idx[nodeid] ELSE Null

(* line 76 without the keys of the second index *)
AllNodeids_FirstOnly(file_a_nodes, file_b_nodes) == DOMAIN file_a_nodes

(* line 76 *)
AllNodeids(file_a_nodes, file_b_nodes) == (DOMAIN file_a_nodes) \cup (DOMAIN file_b_nodes)

(* lines 90-94 with node.get('name') in place of node.get('name', 'Unknown') *)
SummaryRecord_NoDefault(nodeid, node) ==
    [nodeid       |-> JStr(nodeid),
     name         |-> Get(node, "name", Null),
     nodegroup_id |-> JStr(NodeGroupLabel \o PyStr(Get(node, "nodegroup_id", JStr(Unknown))))]

(* lines 90-94, 96-100, 102-106: the record appended for a node; the       *)
(* f-string of line 93 is the label followed by str() of the value         *)
SummaryRecord(nodeid, node) ==
    [nodeid       |-> JStr(nodeid),
     name         |-> Get(node, "name", JStr(Unknown)),
     nodegroup_id |-> JStr(NodeGroupLabel \o PyStr(Get(node, "nodegroup_id", JStr(Unknown))))]

(* lines 109-119 without the test of line 115: every field is recorded *)
Differences_AllFields(node_a, node_b) ==
    LET all_keys == (DOMAIN node_a.v) \cup (DOMAIN node_b.v)
    IN  [key \in all_keys |-> [first_file  |-> Get(node_a, key, Null),
                               second_file |-> Get(node_b, key, Null)]]

(* lines 109-119 with val_a in place of val_b at line 118 *)
Differences_FirstTwice(node_a, node_b) ==
    LET all_keys == (DOMAIN node_a.v) \cup (DOMAIN node_b.v)
        differ   == {key \in all_keys : ~PyEq(Get(node_a, key, Null), Get(node_b, key, Null))}
    IN  [key \in differ |-> [first_file  |-> Get(node_a, key, Null),
                             second_file |-> Get(node_a, key, Null)]]

(* lines 109-119: the fields of the union whose .get values differ *)
Differences(node_a, node_b) ==
    LET all_keys == (DOMAIN node_a.v) \cup (DOMAIN node_b.v)
        differ   == {key \in all_keys : ~PyEq(Get(node_a, key, Null), Get(node_b, key, Null))}
    IN  [key \in differ |-> [first_file  |-> Get(node_a, key, Null),
                             second_file |-> Get(node_b, key, Null)]]

(* line 122 without the test of line 121 *)
RecordDifferences_Always(differing_fields, nodeid, differences) ==
    [x \in (DOMAIN differing_fields) \cup {nodeid} |->
        IF x = nodeid THEN differences ELSE differing_fields[x]]

(* lines 121-122: differing_fields after the differences of one node *)
RecordDifferences(differing_fields, nodeid, differences) ==
    IF DOMAIN differences # {}
    THEN [x \in (DOMAIN differing_fields) \cup {nodeid} |->
             IF x = nodeid THEN differences ELSE differing_fields[x]]
    ELSE differing_fields

(* lines 86-122: the body of the loop for one nodeid *)
CompareStep(res, nodeid, file_a_nodes, file_b_nodes) ==
    LET node_a == GetNode(file_a_nodes, nodeid)
        node_b == GetNode(file_b_nodes, nodeid)
    IN  IF Truthy(node_a) /\ ~Truthy(node_b)
        THEN [res EXCEPT !.only_in_first_file = Append(@, SummaryRecord(nodeid, node_a))]
        ELSE IF Truthy(node_b) /\ ~Truthy(node_a)
        THEN [res EXCEPT !.only_in_second_file = Append(@, SummaryRecord(nodeid, node_b))]
        ELSE [res EXCEPT
                !.present_in_both = Append(@, SummaryRecord(nodeid, node_a)),
                !.differing_fields =
                    IF ~NodeEq(node_a, node_b)
                    THEN RecordDifferences(@, nodeid, Differences(node_a, node_b))
                    ELSE @]

(* lines 85-122: the loop over sorted(all_nodeids) *)
RECURSIVE CompareLoop(_, _, _, _)
CompareLoop(ids, res, file_a_nodes, file_b_nodes) ==
    IF Len(ids) = 0 THEN res
    ELSE CompareLoop(Tail(ids), CompareStep(res, Head(ids), file_a_nodes, file_b_nodes),
                     file_a_nodes, file_b_nodes)

(* lines 78-83 *)
EmptyResults ==
    [only_in_first_file  |-> <<>>,
     only_in_second_file |-> <<>>,
     present_in_both     |-> <<>>,
     differing_fields    |-> [k \in {} |-> Null]]

(* lines 76-124 *)
compare_nodes(file_a_nodes, file_b_nodes) ==
    CompareLoop(Sorted(AllNodeids(file_a_nodes, file_b_nodes)), EmptyResults,
                file_a_nodes, file_b_nodes)

(* -------------------------------- main -------------------------------- *)

(* lines 146-153 *)
Summary(a, b, res) ==
    [total_nodes_file1      |-> Cardinality(DOMAIN a),
     total_nodes_file2      |-> Cardinality(DOMAIN b),
     only_in_file1_count    |-> Len(res.only_in_first_file),
     only_in_file2_count    |-> Len(res.only_in_second_file),
     common_nodes_count     |-> Len(res.present_in_both),
     nodes_with_differences |-> Cardinality(DOMAIN res.differing_fields)]

(* line 156: one line of the report; an f-string field is str() of the value *)
FormatNode(node) ==
    <<78, 111, 100, 101, 32, 73, 68, 32, 45, 32>> \o PyStr(node.nodeid)
    \o <<32, 45, 32, 78, 111, 100, 101, 32, 110, 97, 109, 101, 32, 45, 32>> \o PyStr(node.name)
    \o <<32, 45, 32, 91>> \o PyStr(node.nodegroup_id) \o <<93>>

(* lines 155-157 *)
format_node_list(nodes) == [i \in 1..Len(nodes) |-> FormatNode(nodes[i])]

(* lines 159-179: the four counts and the three sections of the report;    *)
(* differing_fields and the two other counts are not part of it            *)
OutputText(res) ==
    [total_nodes_file1   |-> Digits(res.summary.total_nodes_file1),
     total_nodes_file2   |-> Digits(res.summary.total_nodes_file2),
     only_in_file1_count |-> Digits(res.summary.only_in_file1_count),
     only_in_file2_count |-> Digits(res.summary.only_in_file2_count),
     only_in_first       |-> format_node_list(res.only_in_first_file),
     only_in_second      |-> format_node_list(res.only_in_second_file),
     in_both             |-> format_node_list(res.present_in_both)]

(* a local that is not bound yet *)
Unset == [t |-> "unset", v |-> 0]

(* an index variable that is not bound yet: no str has a negative code point *)
NoIndex == <<-1>> :> Unset

(* lines 187-189 without the return of line 189: main returns 0 at line 191 *)
Except_ReturnsZero(e) ==
    /\ stderr' = Append(stderr, <<"Error", e>>)
    /\ exit_code' = 0
    /\ pc' = "done"

(* lines 187-189: the handler prints the error and main returns 1 *)
Except(e) ==
    /\ stderr' = Append(stderr, <<"Error", e>>)
    /\ exit_code' = 1
    /\ pc' = "done"

(* ---------------------------- the documents --------------------------- *)

(* the longest nodes list of a document whose graph is a single mapping *)
MaxNodes == 2

(* the most entries, graph entries and their node entries together, of a   *)
(* graph list                                                              *)
MaxEntries == 4

SeqsUpTo(S, n) == UNION {[1..m -> S] : m \in 0..n}

(* node dicts: ids "1", 1, "2", "10" and 10, ids that are 0, empty, null   *)
(* or missing, and fields that differ between two dicts with the same id   *)
NodeDicts ==
    { JDict("nodeid" :> JStr(<<49>>) @@ "name" :> JStr(<<88>>) @@ "val" :> JInt(5)),
      JDict("nodeid" :> JStr(<<49>>) @@ "name" :> JStr(<<88>>) @@ "val" :> JInt(7)),
      JDict("nodeid" :> JStr(<<49>>) @@ "name" :> JStr(<<88>>) @@ "val" :> JInt(5)
            @@ "nodegroup_id" :> Null),
      JDict("nodeid" :> JInt(1) @@ "name" :> JStr(<<88>>) @@ "val" :> JInt(5)),
      JDict("nodeid" :> JStr(<<50>>) @@ "nodegroup_id" :> JInt(1)),
      JDict("nodeid" :> JStr(<<50>>) @@ "nodegroup_id" :> JStr(<<49>>)),
      JDict("nodeid" :> JStr(<<50>>) @@ "nodegroup_id" :> JBool(TRUE)),
      JDict("nodeid" :> JStr(<<49, 48>>) @@ "alias" :> JInt(1)),
      JDict("nodeid" :> JInt(10) @@ "alias" :> JStr(<<49>>)),
      JDict("nodeid" :> JInt(0) @@ "name" :> JStr(<<88>>)),
      JDict("nodeid" :> JList(<<>>)),
      JDict("nodeid" :> JStr(<<>>) @@ "name" :> JStr(<<88>>)),
      JDict("nodeid" :> Null),
      JDict("name" :> JStr(<<88>>)) }

(* the entries of a nodes list: the node dicts and one that is no dict *)
NodeEntries == NodeDicts \cup {JStr(<<88>>)}

(* the entries of the nodes lists inside a graph list *)
ListedNodeEntries ==
    { JDict("nodeid" :> JStr(<<49>>) @@ "name" :> JStr(<<88>>) @@ "val" :> JInt(5)),
      JDict("nodeid" :> JStr(<<49>>) @@ "name" :> JStr(<<88>>) @@ "val" :> JInt(7)),
      JDict("nodeid" :> JStr(<<50>>) @@ "nodegroup_id" :> JInt(1)) }

(* graph entries without a nodes list: no dict, no nodes key, nodes no list *)
OffShapeGraphs == {JStr(<<88>>), JDict(EmptyDict), JDict("nodes" :> JInt(1))}

Graph(nodes) == JDict("nodes" :> JList(nodes))

(* the graph lists of at most n entries in all *)
RECURSIVE GraphLists(_)
GraphLists(n) ==
    IF n = 0 THEN {<<>>}
    ELSE {<<>>}
         \cup {<<g>> \o r : g \in OffShapeGraphs, r \in GraphLists(n - 1)}
         \cup UNION {{<<Graph(l)>> \o r : r \in GraphLists(n - 1 - Len(l))} :
                       l \in SeqsUpTo(ListedNodeEntries, n - 1)}

(* what json.load returns: documents that are no mapping, documents        *)
(* without a graph, with a graph that is a single value, and with a list   *)
Docs ==
    {JList(<<>>), Null, JDict(EmptyDict), JDict("graph" :> Null)}
    \cup {JDict("graph" :> g) : g \in OffShapeGraphs}
    \cup {JDict("graph" :> Graph(l)) : l \in SeqsUpTo(NodeEntries, MaxNodes)}
    \cup {JDict("graph" :> JList(gs)) : gs \in GraphLists(MaxEntries)}

(* ------------------------------- actions ------------------------------ *)

(* lines 127-140: the arguments are parsed and the try block is entered *)
Init ==
    /\ pc = "load1"
    /\ data = Unset
    /\ nodes_by_id = NoIndex
    /\ nodes_a = NoIndex
    /\ nodes_b = NoIndex
    /\ results = Unset
    /\ opened = <<>>
    /\ output_file = [state |-> "absent", text |-> Unset]
    /\ stdout = <<>>
    /\ stderr = <<>>
    /\ exit_code = -1

(* lines 34-58: the body of load_nodes_by_id.  open or json.load raises,   *)
(* or json.load returns a document; then line 39 raises, or the loops      *)
(* build nodes_by_id                                                       *)
LoadBody(file, return) ==
    /\ opened' = Append(opened, file)
    /\ \/ /\ Except("load")
          /\ UNCHANGED <<data, nodes_by_id>>
       \/ \E doc \in Docs :
            /\ data' = doc
            /\ IF LoadRaises(doc)
               THEN Except("AttributeError") /\ UNCHANGED nodes_by_id
               ELSE /\ nodes_by_id' = load_nodes_by_id(doc)
                    /\ pc' = return
                    /\ UNCHANGED <<stderr, exit_code>>

(* line 141: the call load_nodes_by_id(args.file1) *)
Load1 ==
    /\ pc = "load1"
    /\ LoadBody("file1", "return1")
    /\ UNCHANGED <<nodes_a, nodes_b, results, output_file, stdout>>

(* lines 60, 141: the call returns, nodes_a is bound, the locals are gone *)
Return1 ==
    /\ pc = "return1"
    /\ nodes_a' = nodes_by_id
    /\ data' = Unset
    /\ nodes_by_id' = NoIndex
    /\ pc' = "load2"
    /\ UNCHANGED <<nodes_b, results, opened, output_file, stdout, stderr, exit_code>>

(* line 142: the call load_nodes_by_id(args.file2) *)
Load2 ==
    /\ pc = "load2"
    /\ LoadBody("file2", "return2")
    /\ UNCHANGED <<nodes_a, nodes_b, results, output_file, stdout>>

(* lines 60, 142 *)
Return2 ==
    /\ pc = "return2"
    /\ nodes_b' = nodes_by_id
    /\ data' = Unset
    /\ nodes_by_id' = NoIndex
    /\ pc' = "compare"
    /\ UNCHANGED <<nodes_a, results, opened, output_file, stdout, stderr, exit_code>>

(* lines 144-153: compare_nodes and the summary *)
Compare ==
    /\ pc = "compare"
    /\ LET res == compare_nodes(nodes_a, nodes_b)
       IN  results' = [only_in_first_file  |-> res.only_in_first_file,
                       only_in_second_file |-> res.only_in_second_file,
                       present_in_both     |-> res.present_in_both,
                       differing_fields    |-> res.differing_fields,
                       summary             |-> Summary(nodes_a, nodes_b, res)]
    /\ pc' = "write"
    /\ UNCHANGED <<data, nodes_by_id, nodes_a, nodes_b, opened, output_file, stdout, stderr, exit_code>>

(* lines 155-185: the report is rendered, written and announced; open or   *)
(* write may raise, write after the file was created                       *)
Write ==
    /\ pc = "write"
    /\ \/ /\ output_file' = [state |-> "written", text |-> OutputText(results)]
          /\ stdout' = Append(stdout, "Results written to output_file")
          /\ pc' = "return0"
          /\ UNCHANGED <<stderr, exit_code>>
       \/ /\ Except("open")
          /\ UNCHANGED <<output_file, stdout>>
       \/ /\ Except("write")
          /\ output_file' = [state |-> "partial", text |-> Unset]
          /\ UNCHANGED stdout
    /\ UNCHANGED <<data, nodes_by_id, nodes_a, nodes_b, results, opened>>

(* line 191 *)
Return0 ==
    /\ pc = "return0"
    /\ exit_code' = 0
    /\ pc' = "done"
    /\ UNCHANGED <<data, nodes_by_id, nodes_a, nodes_b, results, opened, output_file, stdout, stderr>>

Next == Load1 \/ Return1 \/ Load2 \/ Return2 \/ Compare \/ Write \/ Return0

Spec == Init /\ [][Next]_vars

(* ------------------------------ properties ---------------------------- *)

(* compare_nodes has returned and results is bound *)
Compared == pc \in {"write", "return0"} \/ (pc = "done" /\ results # Unset)

(* load_nodes_by_id has built its index and is about to return it *)
Extracted == pc \in {"return1", "return2"}

Range(seq) == {seq[i] : i \in 1..Len(seq)}

(* the nodeids of a list of summary records, in order *)
IdsOf(list) == [i \in 1..Len(list) |-> list[i].nodeid.v]

InBoth == (DOMAIN nodes_a) \cap (DOMAIN nodes_b)

FieldsOf(nodeid) == (DOMAIN nodes_a[nodeid].v) \cup (DOMAIN nodes_b[nodeid].v)

(* the fields of a node in both indexes whose values differ, a field the   *)
(* record lacks read as null                                               *)
DifferingFieldsOf(nodeid) ==
    {key \in FieldsOf(nodeid) :
        ~PyEq(Get(nodes_a[nodeid], key, Null), Get(nodes_b[nodeid], key, Null))}

(* C1: the nodeids of only_in_first_file, only_in_second_file and          *)
(* present_in_both are the keys only in A, the keys only in B and the keys *)
(* in both, each listed once, so together exactly keys(A) union keys(B).   *)
C1_Partition ==
    Compared =>
        LET first  == IdsOf(results.only_in_first_file)
            second == IdsOf(results.only_in_second_file)
            both   == IdsOf(results.present_in_both)
        IN  /\ Range(first) = (DOMAIN nodes_a) \ (DOMAIN nodes_b)
            /\ Range(second) = (DOMAIN nodes_b) \ (DOMAIN nodes_a)
            /\ Range(both) = InBoth
            /\ Len(first) = Cardinality(Range(first))
            /\ Len(second) = Cardinality(Range(second))
            /\ Len(both) = Cardinality(Range(both))

(* C1's case: a key only in A, a key only in B and a key in both *)
C1_Witness ==
    /\ Compared
    /\ Len(results.only_in_first_file) > 0
    /\ Len(results.only_in_second_file) > 0
    /\ Len(results.present_in_both) > 0

(* C2 as claimed: every nodeid in both indexes whose records are not equal *)
(* has an entry in differing_fields, whose keys are the fields with        *)
(* unequal values and whose values are the two sides' values.              *)
C2_AsClaimed ==
    Compared =>
        \A nodeid \in InBoth :
            ~NodeEq(nodes_a[nodeid], nodes_b[nodeid]) =>
                /\ nodeid \in DOMAIN results.differing_fields
                /\ DOMAIN results.differing_fields[nodeid] = DifferingFieldsOf(nodeid)
                /\ \A key \in DifferingFieldsOf(nodeid) :
                      results.differing_fields[nodeid][key] =
                          [first_file  |-> Get(nodes_a[nodeid], key, Null),
                           second_file |-> Get(nodes_b[nodeid], key, Null)]

(* C2 amended: every nodeid in both indexes with at least one field whose  *)
(* values differ, an absent field read as null, has an entry in            *)
(* differing_fields; its keys are exactly those fields, and each maps to   *)
(* first_file: A's value or null, second_file: B's value or null.          *)
C2_FieldDiff ==
    Compared =>
        \A nodeid \in InBoth :
            DifferingFieldsOf(nodeid) # {} =>
                /\ nodeid \in DOMAIN results.differing_fields
                /\ DOMAIN results.differing_fields[nodeid] = DifferingFieldsOf(nodeid)
                /\ \A key \in DifferingFieldsOf(nodeid) :
                      results.differing_fields[nodeid][key] =
                          [first_file  |-> Get(nodes_a[nodeid], key, Null),
                           second_file |-> Get(nodes_b[nodeid], key, Null)]

(* C2's case: name X and val 5 against name X and val 7 gives val alone *)
C2_Witness ==
    /\ Compared
    /\ \E nodeid \in InBoth :
          /\ Get(nodes_a[nodeid], "val", Null) = JInt(5)
          /\ Get(nodes_b[nodeid], "val", Null) = JInt(7)
          /\ Get(nodes_a[nodeid], "name", Null) = Get(nodes_b[nodeid], "name", Null)
          /\ "name" \in FieldsOf(nodeid)
          /\ nodeid \in DOMAIN results.differing_fields
          /\ results.differing_fields[nodeid] =
                ("val" :> [first_file |-> JInt(5), second_file |-> JInt(7)])

(* C3 as claimed: a node in both indexes whose two records are equal once  *)
(* nodeid, nodegroup_id and alias are taken as strs is listed in           *)
(* present_in_both and has no entry in differing_fields.                   *)
C3_AsClaimed ==
    Compared =>
        \A nodeid \in InBoth :
            NodeEq(cast_node(nodes_a[nodeid]), cast_node(nodes_b[nodeid])) =>
                /\ nodeid \in Range(IdsOf(results.present_in_both))
                /\ nodeid \notin DOMAIN results.differing_fields

(* the node entries a document holds, in document order: those of the      *)
(* nodes sequence of every graph entry that is a mapping                   *)
RECURSIVE EntriesOf(_)
EntriesOf(graphs) ==
    IF Len(graphs) = 0 THEN <<>>
    ELSE LET graph == Head(graphs)
         IN  (IF IsDict(graph) /\ "nodes" \in DOMAIN graph.v /\ IsList(graph.v["nodes"])
              THEN graph.v["nodes"].v ELSE <<>>) \o EntriesOf(Tail(graphs))

(* a value that is neither null nor empty *)
NotEmptyOrNull(x) ==
    /\ x.t # "null"
    /\ x.t \in {"str", "list"} => Len(x.v) > 0
    /\ x.t = "dict" => DOMAIN x.v # {}

(* a node entry that is a mapping with a nodeid that is present and not    *)
(* empty or null                                                           *)
HasUsableNodeid(entry) ==
    /\ IsDict(entry)
    /\ "nodeid" \in DOMAIN entry.v
    /\ NotEmptyOrNull(entry.v["nodeid"])

IdStr(entry) == PyStr(entry.v["nodeid"])

(* C4 as claimed: the keys of the extracted index are exactly the string   *)
(* forms of the nodeids of the node entries that are mappings with a       *)
(* nodeid that is present and not empty or null.                           *)
C4_AsClaimed ==
    Extracted =>
        DOMAIN nodes_by_id =
            {IdStr(entry) : entry \in {e \in Range(EntriesOf(GraphsOf(data))) : HasUsableNodeid(e)}}

(* C5 as claimed: once a document is parsed, extraction returns an index;  *)
(* without a graph entry the index is empty, and off-shape graph, nodes    *)
(* and node entries are skipped.                                           *)
C5_AsClaimed ==
    /\ data # Unset => Extracted
    /\ Extracted =>
          /\ "graph" \notin DOMAIN data.v => nodes_by_id = EmptyIndex
          /\ \A k \in DOMAIN nodes_by_id :
                \E e \in Range(EntriesOf(GraphsOf(data))) : IsDict(e) /\ nodes_by_id[k] = e

(* the summary record of a node with the node's own nodegroup_id *)
ClaimedRecord(nodeid, node) ==
    [nodeid       |-> JStr(nodeid),
     name         |-> Get(node, "name", JStr(Unknown)),
     nodegroup_id |-> Get(node, "nodegroup_id", JStr(Unknown))]

(* the summary record of a node with the str "NODE_GROUP_ID: " followed by *)
(* the string form of the node's nodegroup_id, or by "Unknown"             *)
LabelledRecord(nodeid, node) ==
    [nodeid       |-> JStr(nodeid),
     name         |-> IF "name" \in DOMAIN node.v THEN node.v["name"] ELSE JStr(Unknown),
     nodegroup_id |-> JStr(NodeGroupLabel \o
                           (IF "nodegroup_id" \in DOMAIN node.v
                            THEN PyStr(node.v["nodegroup_id"]) ELSE Unknown))]

(* C6 as claimed: name and nodegroup_id of every summary record are the    *)
(* node's own values, or "Unknown" when the node lacks the field; the      *)
(* record of an id only in B is taken from B's node, that of an id in A    *)
(* from A's node.                                                          *)
C6_AsClaimed ==
    Compared =>
        /\ \A r \in Range(results.only_in_first_file) :
              r = ClaimedRecord(r.nodeid.v, nodes_a[r.nodeid.v])
        /\ \A r \in Range(results.only_in_second_file) :
              r = ClaimedRecord(r.nodeid.v, nodes_b[r.nodeid.v])
        /\ \A r \in Range(results.present_in_both) :
              r = ClaimedRecord(r.nodeid.v, nodes_a[r.nodeid.v])

(* C6 amended: every summary record is {nodeid, name, nodegroup_id} with   *)
(* name the node's own value or "Unknown", and nodegroup_id the str        *)
(* "NODE_GROUP_ID: " followed by the string form of the node's own value   *)
(* or by "Unknown"; the record of an id only in B is taken from B's node,  *)
(* that of an id in A, alone or in both, from A's node.                    *)
C6_SummaryRecords ==
    Compared =>
        /\ \A r \in Range(results.only_in_first_file) :
              r = LabelledRecord(r.nodeid.v, nodes_a[r.nodeid.v])
        /\ \A r \in Range(results.only_in_second_file) :
              r = LabelledRecord(r.nodeid.v, nodes_b[r.nodeid.v])
        /\ \A r \in Range(results.present_in_both) :
              r = LabelledRecord(r.nodeid.v, nodes_a[r.nodeid.v])

(* C6's case: a record from B's node, a record of a node without a name,   *)
(* and a record in both whose two nodes have different nodegroup_ids       *)
C6_Witness ==
    /\ Compared
    /\ Len(results.only_in_second_file) > 0
    /\ \E r \in Range(results.only_in_first_file) : r.name = JStr(Unknown)
    /\ \E r \in Range(results.present_in_both) :
          /\ "nodegroup_id" \in DOMAIN nodes_a[r.nodeid.v].v
          /\ Get(nodes_b[r.nodeid.v], "nodegroup_id", Null) # nodes_a[r.nodeid.v].v["nodegroup_id"]

(* C7: compare(B, A) has the two only-in lists of compare(A, B) swapped,   *)
(* the same nodeids in the same order in present_in_both, and              *)
(* differing_fields with the same nodeids and fields, first_file and       *)
(* second_file swapped.                                                    *)
C7_Symmetry ==
    Compared =>
        LET swapped == compare_nodes(nodes_b, nodes_a)
        IN  /\ swapped.only_in_first_file = results.only_in_second_file
            /\ swapped.only_in_second_file = results.only_in_first_file
            /\ IdsOf(swapped.present_in_both) = IdsOf(results.present_in_both)
            /\ DOMAIN swapped.differing_fields = DOMAIN results.differing_fields
            /\ \A nodeid \in DOMAIN results.differing_fields :
                  /\ DOMAIN swapped.differing_fields[nodeid] = DOMAIN results.differing_fields[nodeid]
                  /\ \A key \in DOMAIN results.differing_fields[nodeid] :
                        /\ swapped.differing_fields[nodeid][key].first_file
                               = results.differing_fields[nodeid][key].second_file
                        /\ swapped.differing_fields[nodeid][key].second_file
                               = results.differing_fields[nodeid][key].first_file

(* C7's case: the two only-in lists differ and a field differs *)
C7_Witness ==
    /\ Compared
    /\ Len(results.only_in_first_file) > 0
    /\ results.only_in_first_file # results.only_in_second_file
    /\ \E nodeid \in DOMAIN results.differing_fields :
          \E key \in DOMAIN results.differing_fields[nodeid] :
              results.differing_fields[nodeid][key].first_file
                  # results.differing_fields[nodeid][key].second_file

(* the last of the entries of a sequence with a given nodeid string *)
LastWithId(entries, k) ==
    entries[CHOOSE i \in 1..Len(entries) :
                /\ IdStr(entries[i]) = k
                /\ \A j \in (i + 1)..Len(entries) : IdStr(entries[j]) # k]

(* C8 as claimed: for the node entries with a nodeid, the index has one    *)
(* key per distinct string form, and under it the last such entry.         *)
C8_AsClaimed ==
    Extracted =>
        LET entries == SelectSeq(EntriesOf(GraphsOf(data)), HasUsableNodeid)
            keys    == {IdStr(e) : e \in Range(entries)}
        IN  /\ Cardinality(DOMAIN nodes_by_id) = Cardinality(keys)
            /\ \A k \in keys :
                  /\ k \in DOMAIN nodes_by_id
                  /\ nodes_by_id[k] = LastWithId(entries, k)

(* What holds of the code instead of C4 and C8: the same with "indexed" in *)
(* place of "present and not empty or null", an entry being indexed when   *)
(* its nodeid is true in a Boolean test (0 and false are not).             *)
IndexedEntry(entry) == IsDict(entry) /\ HasNodeid(entry)

LastIndexedWins ==
    Extracted =>
        LET entries == SelectSeq(EntriesOf(GraphsOf(data)), IndexedEntry)
            keys    == {IdStr(e) : e \in Range(entries)}
        IN  /\ DOMAIN nodes_by_id = keys
            /\ \A k \in keys : nodes_by_id[k] = LastWithId(entries, k)

(* C9: a finished run has either exit status 1, one error line on the      *)
(* diagnostic stream and no success line, after a load or the write        *)
(* failed; or exit status 0, no error line, the success line, and the      *)
(* report of the comparison of both loaded documents in the output file.   *)
(* No status is returned before the end, and the second document is opened *)
(* only after the first was loaded.                                        *)
C9_Outcome ==
    /\ pc # "done" => exit_code = -1 /\ stderr = <<>>
    /\ pc = "done" =>
          \/ /\ exit_code = 1
             /\ Len(stderr) = 1
             /\ stderr[1][1] = "Error"
             /\ stdout = <<>>
             /\ output_file.state # "written"
          \/ /\ exit_code = 0
             /\ stderr = <<>>
             /\ stdout = <<"Results written to output_file">>
             /\ opened = <<"file1", "file2">>
             /\ nodes_a # NoIndex /\ nodes_b # NoIndex
             /\ results # Unset
             /\ output_file = [state |-> "written", text |-> OutputText(results)]
    /\ "file2" \in Range(opened) => opened[1] = "file1" /\ nodes_a # NoIndex
    /\ nodes_a = NoIndex => nodes_b = NoIndex /\ results = Unset /\ output_file.state = "absent"

(* C9's case: both documents loaded and compared, the write failed after   *)
(* the file was created, and the run ended                                 *)
C9_Witness ==
    /\ pc = "done"
    /\ exit_code = 1
    /\ results # Unset
    /\ output_file.state = "partial"

(* C10 as claimed: a nodeid in both indexes is a key of differing_fields   *)
(* if and only if the two records are not equal.                           *)
C10_AsClaimed ==
    Compared =>
        \A nodeid \in InBoth :
            nodeid \in DOMAIN results.differing_fields
                <=> ~NodeEq(nodes_a[nodeid], nodes_b[nodeid])

(* C10 amended: the keys of differing_fields are the nodeids in both       *)
(* indexes with at least one field whose values differ, an absent field    *)
(* read as null; such records are never equal and no entry is empty, but   *)
(* two records that differ only in fields null on one side and absent on   *)
(* the other have no entry.                                                *)
C10_DifferingKeys ==
    Compared =>
        /\ DOMAIN results.differing_fields = {nodeid \in InBoth : DifferingFieldsOf(nodeid) # {}}
        /\ \A nodeid \in DOMAIN results.differing_fields :
              /\ ~NodeEq(nodes_a[nodeid], nodes_b[nodeid])
              /\ DOMAIN results.differing_fields[nodeid] # {}

(* C10's case: unequal records with an entry, unequal records without one, *)
(* and equal records                                                       *)
C10_Witness ==
    /\ Compared
    /\ \E nodeid \in InBoth :
          /\ ~NodeEq(nodes_a[nodeid], nodes_b[nodeid])
          /\ nodeid \notin DOMAIN results.differing_fields
    /\ \E nodeid \in InBoth :
          /\ ~NodeEq(nodes_a[nodeid], nodes_b[nodeid])
          /\ nodeid \in DOMAIN results.differing_fields

====
